---- MODULE Spec2Model ----
(***************************************************************************)
(* Model of config_parser.py: the line-oriented recursive-descent parser   *)
(* ConfigParser.  A text is a sequence of one-character strings; a line is *)
(* a sequence of characters without "\n".  Every ConfigParser object is a  *)
(* record (lines, current_line, constants) plus the stack of its active    *)
(* parse_block calls; the inline-literal parsers created by parse_dict are *)
(* stacked on top of the parser that created them.                         *)
(***************************************************************************)
EXTENDS Integers, Sequences, FiniteSets, TLC

VARIABLES pc, parsers, config, result, error, text, trace

vars == <<pc, parsers, config, result, error, text, trace>>

(***************************************************************************)
(* Characters and the str methods the parser uses.                         *)
(***************************************************************************)
Lower == {"a","b","c","d","e","f","g","h","i","j","k","l","m",
          "n","o","p","q","r","s","t","u","v","w","x","y","z"}

Upper == {"A","B","C","D","E","F","G","H","I","J","K","L","M",
          "N","O","P","Q","R","S","T","U","V","W","X","Y","Z"}

Digit == {"0","1","2","3","4","5","6","7","8","9"}

IdStart == Lower \cup Upper \cup {"_"}

IdChar == IdStart \cup Digit

Space == {" ", "\t", "\n", "\r"}

DigitVal(c) ==
  CASE c = "0" -> 0 [] c = "1" -> 1 [] c = "2" -> 2 [] c = "3" -> 3
    [] c = "4" -> 4 [] c = "5" -> 5 [] c = "6" -> 6 [] c = "7" -> 7
    [] c = "8" -> 8 [] c = "9" -> 9

StartsWith(s, p) == Len(s) >= Len(p) /\ SubSeq(s, 1, Len(p)) = p

EndsWith(s, p) == Len(s) >= Len(p) /\ SubSeq(s, Len(s) - Len(p) + 1, Len(s)) = p

RECURSIVE LStrip(_)
LStrip(s) == IF s # <<>> /\ s[1] \in Space THEN LStrip(Tail(s)) ELSE s

RECURSIVE RStrip(_)
RStrip(s) ==
  IF s # <<>> /\ s[Len(s)] \in Space THEN RStrip(SubSeq(s, 1, Len(s) - 1)) ELSE s

Strip(s) == RStrip(LStrip(s))

\* str.split('\n'): the pieces between the newlines, always at least one
RECURSIVE Split(_)
Split(s) ==
  IF \E i \in 1..Len(s) : s[i] = "\n"
  THEN LET i == CHOOSE j \in 1..Len(s) :
                  s[j] = "\n" /\ \A k \in 1..(j - 1) : s[k] # "\n"
       IN <<SubSeq(s, 1, i - 1)>> \o Split(SubSeq(s, i + 1, Len(s)))
  ELSE <<s>>

\* first position >= i of s that holds no whitespace (Len(s)+1 when none)
RECURSIVE SkipSpace(_, _)
SkipSpace(s, i) == IF i <= Len(s) /\ s[i] \in Space THEN SkipSpace(s, i + 1) ELSE i

\* [a-zA-Z_][a-zA-Z0-9_]* at position i: the position after it, 0 when no match
RECURSIVE IdRest(_, _)
IdRest(s, i) == IF i <= Len(s) /\ s[i] \in IdChar THEN IdRest(s, i + 1) ELSE i

IdEnd(s, i) == IF i <= Len(s) /\ s[i] \in IdStart THEN IdRest(s, i + 1) ELSE 0

(***************************************************************************)
(* Values: int, float, str and dict (insertion ordered).                   *)
(***************************************************************************)
IntV(n) == [t |-> "int", v |-> n]

\* the float m / 10^e, with e as small as possible
RECURSIVE FloatV(_, _)
FloatV(m, e) ==
  IF e > 0 /\ m % 10 = 0 THEN FloatV(m \div 10, e - 1)
  ELSE [t |-> "float", v |-> <<m, e>>]

TextV(s) == [t |-> "text", v |-> s]

MapV(d) == [t |-> "map", v |-> d]

\* a Python dict: the sequence of its items in insertion order
EmptyDict == <<>>

DictHas(d, k) == \E i \in 1..Len(d) : d[i].k = k

DictGet(d, k) == d[CHOOSE i \in 1..Len(d) : d[i].k = k].v

\* a new key put in front of the others
DictSetFront(d, k, v) ==
  IF DictHas(d, k)
  THEN [i \in 1..Len(d) |-> IF d[i].k = k THEN [k |-> k, v |-> v] ELSE d[i]]
  ELSE <<[k |-> k, v |-> v]>> \o d

DictSet(d, k, v) ==
  IF DictHas(d, k)
  THEN [i \in 1..Len(d) |-> IF d[i].k = k THEN [k |-> k, v |-> v] ELSE d[i]]
  ELSE Append(d, [k |-> k, v |-> v])

DictKeys(d) == [i \in 1..Len(d) |-> d[i].k]

(***************************************************************************)
(* ParseError(message, line_number): the message text is a fixed part msg  *)
(* and, for the two formatted messages, the interpolated token arg.        *)
(***************************************************************************)
NoArg == <<>>

ParseError(msg, arg, line_number) == [msg |-> msg, arg |-> arg, line |-> line_number]

NoError == [msg |-> "none", arg |-> NoArg, line |-> 0]

(***************************************************************************)
(* The three regular expressions.                                          *)
(***************************************************************************)
\* ^def\s+([a-zA-Z_][a-zA-Z0-9_]*)\s*=\s*(.+);$   (value is group 2, stripped)
DeclMatch(line) ==
  LET i == SkipSpace(line, 4)
      j == IdEnd(line, i)
      k == SkipSpace(line, j)
      rest == SubSeq(line, k + 1, Len(line))
  IN IF /\ StartsWith(line, <<"d", "e", "f">>)
        /\ i > 4
        /\ j > 0
        /\ k <= Len(line)
        /\ line[k] = "="
        /\ Len(rest) >= 2
        /\ rest[Len(rest)] = ";"
     THEN [ok |-> TRUE, name |-> SubSeq(line, i, j - 1),
           value |-> Strip(SubSeq(rest, 1, Len(rest) - 1))]
     ELSE [ok |-> FALSE, name |-> <<>>, value |-> <<>>]

\* ^([a-zA-Z_][a-zA-Z0-9_]*)\s*->\s*(.+)\.$       (value is group 2, stripped)
EntryMatch(line) ==
  LET j == IdEnd(line, 1)
      k == SkipSpace(line, j)
      rest == SubSeq(line, k + 2, Len(line))
  IN IF /\ j > 0
        /\ k + 1 <= Len(line)
        /\ line[k] = "-"
        /\ line[k + 1] = ">"
        /\ Len(rest) >= 2
        /\ rest[Len(rest)] = "."
     THEN [ok |-> TRUE, key |-> SubSeq(line, 1, j - 1),
           value |-> Strip(SubSeq(rest, 1, Len(rest) - 1))]
     ELSE [ok |-> FALSE, key |-> <<>>, value |-> <<>>]

\* ^([a-zA-Z_][a-zA-Z0-9_]*)\s*->\s*\{$
NestedMatch(line) ==
  LET j == IdEnd(line, 1)
      k == SkipSpace(line, j)
  IN IF /\ j > 0
        /\ k + 1 <= Len(line)
        /\ line[k] = "-"
        /\ line[k + 1] = ">"
        /\ SkipSpace(line, k + 2) = Len(line)
        /\ line[Len(line)] = "{"
     THEN [ok |-> TRUE, key |-> SubSeq(line, 1, j - 1)]
     ELSE [ok |-> FALSE, key |-> <<>>]

(***************************************************************************)
(* parse_value and the readers it dispatches to.  The outcome is a value   *)
(* (k = "val"), a raised ParseError (k = "err") or, for an inline mapping  *)
(* literal, the lines handed to the nested parser (k = "dict").            *)
(***************************************************************************)
Val(v) == [k |-> "val", v |-> v]

Err(e) == [k |-> "err", v |-> e]

Dict(ls) == [k |-> "dict", v |-> ls]

\* value[2:-2]
parse_string(value) == Val(TextV(SubSeq(value, 3, Len(value) - 2)))

AllDigits(s) == Len(s) >= 1 /\ \A i \in 1..Len(s) : s[i] \in Digit

RECURSIVE Num(_)
Num(s) == IF s = <<>> THEN 0 ELSE 10 * Num(SubSeq(s, 1, Len(s) - 1)) + DigitVal(s[Len(s)])

\* every numeric token read as the integer before its '.'
parse_number_int(value, line_number) ==
  LET neg == value # <<>> /\ value[1] = "-"
      body == IF neg THEN Tail(value) ELSE value
      sign == IF neg THEN -1 ELSE 1
      dots == {i \in 1..Len(body) : body[i] = "."}
      ip == IF dots = {} THEN body ELSE SubSeq(body, 1, (CHOOSE i \in dots : TRUE) - 1)
  IN IF AllDigits(ip)
     THEN Val(IntV(sign * Num(ip)))
     ELSE Err(ParseError("invalid number format", value, line_number))

\* ^-?\d+(\.\d+)?$ ; float(value) when it holds a '.', int(value) otherwise
parse_number(value, line_number) ==
  LET neg == value # <<>> /\ value[1] = "-"
      body == IF neg THEN Tail(value) ELSE value
      sign == IF neg THEN -1 ELSE 1
      dots == {i \in 1..Len(body) : body[i] = "."}
  IN IF dots = {} /\ AllDigits(body)
     THEN Val(IntV(sign * Num(body)))
     ELSE IF Cardinality(dots) = 1
          THEN LET d == CHOOSE i \in dots : TRUE
                   ip == SubSeq(body, 1, d - 1)
                   fp == SubSeq(body, d + 1, Len(body))
               IN IF AllDigits(ip) /\ AllDigits(fp)
                  THEN Val(FloatV(sign * Num(ip \o fp), Len(fp)))
                  ELSE Err(ParseError("invalid number format", value, line_number))
          ELSE Err(ParseError("invalid number format", value, line_number))

\* a lookup that yields a default instead of raising
parse_constant_default(value, constants, line_number) ==
  LET const_name == SubSeq(value, 2, Len(value) - 1)
  IN IF ~DictHas(constants, const_name)
     THEN Val([t |-> "none", v |-> <<>>])
     ELSE Val(DictGet(constants, const_name))

\* value[1:-1] looked up in self.constants
parse_constant(value, constants, line_number) ==
  LET const_name == SubSeq(value, 2, Len(value) - 1)
  IN IF ~DictHas(constants, const_name)
     THEN Err(ParseError("undefined constant", const_name, line_number))
     ELSE Val(DictGet(constants, const_name))

\* value[1:-1].strip().split('\n'): the lines of the nested parser
parse_dict_lines(value) == Split(Strip(SubSeq(value, 2, Len(value) - 1)))

parse_value(value, constants, line_number) ==
  IF StartsWith(value, <<"[", "[">>) /\ EndsWith(value, <<"]", "]">>)
  THEN parse_string(value)
  ELSE IF StartsWith(value, <<"{">>) /\ EndsWith(value, <<"}">>)
       THEN Dict(parse_dict_lines(value))
       ELSE IF StartsWith(value, <<"|">>) /\ EndsWith(value, <<"|">>)
            THEN parse_constant(value, constants, line_number)
            ELSE parse_number(value, line_number)

(***************************************************************************)
(* ConfigParser objects and the calls of parse_block that are active in    *)
(* them.  A frame is one active parse_block call: its local config and     *)
(* the place it returns to ("parse": line 43, "anon": line 74, "entry":    *)
(* line 128, "dict": line 178).  cont is, for a nested parser, what the    *)
(* creating parser does with the value parse_value hands back.             *)
(***************************************************************************)
NoCont == [kind |-> "none", name |-> <<>>]

NewParser == [lines |-> <<>>, current_line |-> 0, constants |-> EmptyDict,
              frames |-> <<>>, cont |-> NoCont]

NewFrame(caller, key) == [config |-> EmptyDict, caller |-> caller, key |-> key]

Top(ps) == ps[Len(ps)]

SetTop(ps, p) == [ps EXCEPT ![Len(ps)] = p]

TopFrame(p) == p.frames[Len(p.frames)]

PushFrame(p, f) == [p EXCEPT !.frames = Append(@, f)]

\* leaving a block forgets the constants
PopFrameScoped(p) ==
  [p EXCEPT !.frames = SubSeq(@, 1, Len(@) - 1), !.constants = EmptyDict]

PopFrame(p) == [p EXCEPT !.frames = SubSeq(@, 1, Len(@) - 1)]

\* the cursor left where it is
AdvanceNot(p) == p

Advance(p) == [p EXCEPT !.current_line = @ + 1]

\* self.lines[self.current_line].strip()
CurLine(p) == Strip(p.lines[p.current_line + 1])

AtEnd(p) == ~(p.current_line < Len(p.lines))

\* only blank lines are passed over
IsSkippedBlank(line) == line = <<>>

IsSkipped(line) == line = <<>> \/ StartsWith(line, <<"*", ">">>)

\* the loop that runs next: a parse_block loop, or the first loop of parse
Where(ps) == IF Len(ps) > 1 \/ Top(ps).frames # <<>> THEN "block" ELSE "driver"

Machine(ps, where) ==
  [pc |-> where, parsers |-> ps, config |-> config, result |-> result, error |-> error]

Raise(ps, e) ==
  [pc |-> "raised", parsers |-> ps, config |-> config, result |-> result, error |-> e]

LineNo(ps) == Top(ps).current_line + 1

\* current_dict[key] = value in the innermost active parse_block
StoreEntry(p, key, value) ==
  [p EXCEPT !.frames[Len(p.frames)].config = DictSet(@, key, value)]

\* a name that is already bound keeps its first value
StoreConstantOnce(p, name, value) ==
  IF DictHas(p.constants, name) THEN p ELSE [p EXCEPT !.constants = DictSet(@, name, value)]

\* self.constants[name] = parsed_value
StoreConstant(p, name, value) == [p EXCEPT !.constants = DictSet(@, name, value)]

\* what follows parse_value in parse_entry (lines 119-120 and then line 86)
\* and in parse_constant_declaration (lines 101-102)
BindValue(ps, cont, value) ==
  LET p == Top(ps)
      q == IF cont.kind = "entry"
           THEN Advance(StoreEntry(p, cont.name, value))
           ELSE Advance(StoreConstant(p, cont.name, value))
  IN Machine(SetTop(ps, q), Where(ps))

\* nested_parser.constants = self.constants.copy()
CopyConstants(constants) == constants

\* parse_dict up to its call of nested_parser.parse_block()
NestedParser(p, lines, cont) ==
  [lines |-> lines, current_line |-> 0, constants |-> CopyConstants(p.constants),
   frames |-> <<NewFrame("dict", <<>>)>>, cont |-> cont]

\* the nested parser works on the table of its creator, not on a copy
AfterDictShared(parent, nested) == [parent EXCEPT !.constants = nested.constants]

\* the creating parser once nested_parser.parse_block() has returned: the
\* nested parser is dropped, only the mapping comes back
AfterDict(parent, nested) == parent

ReadValue(ps, cont, token) ==
  LET p == Top(ps)
      r == parse_value(token, p.constants, LineNo(ps))
  IN CASE r.k = "val" -> BindValue(ps, cont, r.v)
       [] r.k = "err" -> Raise(ps, r.v)
       [] r.k = "dict" -> Machine(Append(ps, NestedParser(p, r.v, cont)), "block")

\* the entries of the enclosing block kept in front of the nested block's
AnonResultMerged(own, nested) == own \o nested

\* nested = self.parse_block(); return nested: what a parse_block call whose
\* dict is own returns once the block of a `{` line has returned
AnonResult(own, nested) == nested

\* the innermost active parse_block returns the dict d
RECURSIVE Return(_, _)
Return(ps, d) ==
  LET p == Top(ps)
      f == TopFrame(p)
      q == PopFrame(p)
  IN CASE f.caller = "anon" -> Return(SetTop(ps, q), AnonResult(TopFrame(q).config, d))
       [] f.caller = "entry" ->
            Machine(SetTop(ps, Advance(StoreEntry(q, f.key, MapV(d)))), "block")
       [] f.caller = "parse" ->
            [Machine(SetTop(ps, q), "trailing") EXCEPT !.config = d]
       [] f.caller = "dict" ->
            LET up == SubSeq(ps, 1, Len(ps) - 1)
            IN BindValue(SetTop(up, AfterDict(Top(up), q)), p.cont, MapV(d))

parse_constant_declaration(ps, line) ==
  LET m == DeclMatch(line)
  IN IF ~m.ok
     THEN Raise(ps, ParseError("invalid constant declaration", NoArg, LineNo(ps)))
     ELSE ReadValue(ps, [kind |-> "def", name |-> m.name], m.value)

parse_entry(ps, line) ==
  LET m == EntryMatch(line)
      n == NestedMatch(line)
  IN IF m.ok
     THEN ReadValue(ps, [kind |-> "entry", name |-> m.key], m.value)
     ELSE IF n.ok
          THEN Machine(SetTop(ps, PushFrame(Advance(Top(ps)), NewFrame("entry", n.key))),
                       "block")
          ELSE Raise(ps, ParseError("invalid mapping entry", NoArg, LineNo(ps)))

\* one iteration of the while loop of parse_block, or its exit
parse_block(ps) ==
  LET p == Top(ps)
      line == CurLine(p)
  IN IF AtEnd(p) THEN Return(ps, TopFrame(p).config)
     ELSE IF IsSkipped(line) THEN Machine(SetTop(ps, Advance(p)), "block")
     ELSE IF StartsWith(line, <<"d", "e", "f">>) THEN parse_constant_declaration(ps, line)
     ELSE IF StartsWith(line, <<"{">>)
          THEN Machine(SetTop(ps, PushFrame(Advance(p), NewFrame("anon", <<>>))), "block")
     ELSE IF StartsWith(line, <<"}">>)
          THEN IF line \notin {<<"}", ".">>, <<"}">>}
               THEN Raise(ps, ParseError("expected end of nested mapping", NoArg, LineNo(ps)))
               ELSE Return(SetTop(ps, Advance(p)), TopFrame(p).config)
     ELSE parse_entry(ps, line)

\* one iteration of the first while loop of parse, or its exit
parse_driver(ps) ==
  LET p == Top(ps)
      line == CurLine(p)
  IN IF AtEnd(p) THEN [Machine(ps, "returned") EXCEPT !.result = MapV(EmptyDict)]
     ELSE IF IsSkipped(line) THEN Machine(SetTop(ps, Advance(p)), "driver")
     ELSE IF StartsWith(line, <<"d", "e", "f">>) THEN parse_constant_declaration(ps, line)
     ELSE IF StartsWith(line, <<"{">>)
          THEN Machine(SetTop(ps, PushFrame(Advance(p), NewFrame("parse", <<>>))), "block")
     ELSE Raise(ps, ParseError("expected opening brace", NoArg, LineNo(ps)))

\* one iteration of the second while loop of parse, or its exit
parse_trailing(ps) ==
  LET p == Top(ps)
      line == CurLine(p)
  IN IF AtEnd(p) THEN [Machine(ps, "returned") EXCEPT !.result = MapV(config)]
     ELSE IF IsSkipped(line) THEN Machine(SetTop(ps, Advance(p)), "trailing")
     ELSE Raise(ps, ParseError("expected end of file", NoArg, LineNo(ps)))

\* the rule that reads the current line of the running parser
Rule(ps, where) ==
  LET p == Top(ps)
      line == CurLine(p)
  IN IF AtEnd(p) THEN "end"
     ELSE IF IsSkipped(line) THEN "skip"
     ELSE IF where = "trailing" THEN "extra"
     ELSE IF StartsWith(line, <<"d", "e", "f">>) THEN "def"
     ELSE IF StartsWith(line, <<"{">>) THEN "open"
     ELSE IF where = "driver" THEN "nobrace"
     ELSE IF StartsWith(line, <<"}">>) THEN "close"
     ELSE "entry"

\* what one loop iteration reads: the parser (depth 1 is the one parse was
\* called on), the number and caller of its active parse_block calls, the
\* index of the line and the rule the line is dispatched to
Event(ps, where) ==
  [depth |-> Len(ps), frames |-> Len(Top(ps).frames),
   caller |-> IF Top(ps).frames = <<>> THEN "parse" ELSE TopFrame(Top(ps)).caller,
   where |-> where, line |-> Top(ps).current_line, rule |-> Rule(ps, where)]

(***************************************************************************)
(* The state machine.                                                      *)
(***************************************************************************)
NoValue == [t |-> "none", v |-> <<>>]

Init ==
  /\ pc = "idle"
  /\ parsers = <<NewParser>>
  /\ config = EmptyDict
  /\ result = NoValue
  /\ error = NoError
  /\ text = <<>>
  /\ trace = <<>>

Become(m) ==
  /\ pc' = m.pc
  /\ parsers' = m.parsers
  /\ config' = m.config
  /\ result' = m.result
  /\ error' = m.error

\* parse(text), lines 31-32
Parse(t) ==
  /\ pc = "idle"
  /\ text' = t
  /\ parsers' = <<[parsers[1] EXCEPT !.lines = Split(t), !.current_line = 0]>>
  /\ pc' = "driver"
  /\ trace' = <<>>
  /\ UNCHANGED <<config, result, error>>

DriverStep ==
  /\ pc = "driver"
  /\ Become(parse_driver(parsers))
  /\ trace' = Append(trace, Event(parsers, "driver"))
  /\ UNCHANGED text

BlockStep ==
  /\ pc = "block"
  /\ Become(parse_block(parsers))
  /\ trace' = Append(trace, Event(parsers, "block"))
  /\ UNCHANGED text

TrailingStep ==
  /\ pc = "trailing"
  /\ Become(parse_trailing(parsers))
  /\ trace' = Append(trace, Event(parsers, "trailing"))
  /\ UNCHANGED text

(***************************************************************************)
(* Input documents.  A document is a sequence of lines; the text given to  *)
(* parse is its lines joined by "\n".                                      *)
(***************************************************************************)
RECURSIVE Join(_)
Join(d) == IF Len(d) = 1 THEN d[1] ELSE d[1] \o <<"\n">> \o Join(Tail(d))

Docs(alphabet, n) == UNION {[1..k -> alphabet] : k \in 1..n}

Texts(alphabet, n) == {Join(d) : d \in Docs(alphabet, n)}

\* {
L_Open == <<"{">>
\* }.
L_CloseDot == <<"}", ".">>
\* }
L_Close == <<"}">>
\* a -> 1.
L_Int == <<"a", " ", "-", ">", " ", "1", ".">>
\*   b -> [[s]].
L_Text == <<" ", " ", "b", " ", "-", ">", " ", "[", "[", "s", "]", "]", ".">>
\* f -> -4.50.
L_Float == <<"f", " ", "-", ">", " ", "-", "4", ".", "5", "0", ".">>
\* c -> {
L_Nested == <<"c", " ", "-", ">", " ", "{">>
\* *> n
L_Comment == <<"*", ">", " ", "n">>

MaxLines == 5

FlatLines == {L_Open, L_CloseDot, L_Int, L_Text, L_Float, L_Comment}

ParseFlat == pc = "idle" /\ \E t \in Texts(FlatLines, MaxLines) : Parse(t)

Next ==
  \/ ParseFlat
  \/ DriverStep
  \/ BlockStep
  \/ TrailingStep

Spec == Init /\ [][Next]_vars

MaxNestLines == 7

NestLines == {L_Open, L_CloseDot, L_Close, L_Nested, L_Int}

ParseNest == pc = "idle" /\ \E t \in Texts(NestLines, MaxNestLines) : Parse(t)

NextNest ==
  \/ ParseNest
  \/ DriverStep
  \/ BlockStep
  \/ TrailingStep

SpecNest == Init /\ [][NextNest]_vars

Done == pc \in {"returned", "raised"}

\* the lines of the parser that parse was called on
Lines == parsers[1].lines

(***************************************************************************)
(* The documents as written: what each line of the alphabets says, and the *)
(* mapping a well-formed document denotes by its brace structure.          *)
(***************************************************************************)
ScalarLines == {L_Int, L_Text, L_Float}

\* the entry a scalar entry line writes: a -> 1 (int), b -> "s", f -> -4.5
Written(line) ==
  CASE line = L_Int -> [k |-> <<"a">>, v |-> [t |-> "int", v |-> 1]]
    [] line = L_Text -> [k |-> <<"b">>, v |-> [t |-> "text", v |-> <<"s">>]]
    [] line = L_Float -> [k |-> <<"f">>, v |-> [t |-> "float", v |-> <<-45, 1>>]]

Put(d, e) ==
  IF \E i \in 1..Len(d) : d[i].k = e.k
  THEN [i \in 1..Len(d) |-> IF d[i].k = e.k THEN e ELSE d[i]]
  ELSE d \o <<e>>

\* the block whose first line is ls[i]: its mapping and the position after
\* its closing line; ok is FALSE when the lines end before the block closes
RECURSIVE AsWritten(_, _, _)
AsWritten(ls, i, d) ==
  IF i > Len(ls) THEN [ok |-> FALSE, d |-> d, next |-> i]
  ELSE IF ls[i] \in {L_Close, L_CloseDot} THEN [ok |-> TRUE, d |-> d, next |-> i + 1]
  ELSE IF ls[i] = L_Nested
       THEN LET r == AsWritten(ls, i + 1, <<>>)
            IN IF r.ok
               THEN AsWritten(ls, r.next, Put(d, [k |-> <<"c">>, v |-> [t |-> "map", v |-> r.d]]))
               ELSE [ok |-> FALSE, d |-> d, next |-> r.next]
  ELSE IF ls[i] \in ScalarLines THEN AsWritten(ls, i + 1, Put(d, Written(ls[i])))
  ELSE [ok |-> FALSE, d |-> d, next |-> i]

\* one top-level block of entries and nested blocks, and nothing else
WellFormed(ls) ==
  /\ Len(ls) >= 2
  /\ ls[1] = L_Open
  /\ AsWritten(ls, 2, <<>>).ok
  /\ AsWritten(ls, 2, <<>>).next = Len(ls) + 1

(***************************************************************************)
(* C1: a document `{`, n >= 0 scalar entries with distinct keys, `}.` is   *)
(* parsed to the mapping of exactly these n keys, each bound to its int,   *)
(* float or text value, in the order of the entry lines.                   *)
(***************************************************************************)
Flat(ls) ==
  /\ Len(ls) >= 2
  /\ ls[1] = L_Open
  /\ ls[Len(ls)] = L_CloseDot
  /\ \A i \in 2..(Len(ls) - 1) : ls[i] \in ScalarLines
  /\ \A i, j \in 2..(Len(ls) - 1) : i # j => ls[i] # ls[j]

C1_FlatBlock ==
  (Done /\ Flat(Lines)) =>
    /\ pc = "returned"
    /\ result = [t |-> "map", v |-> [i \in 1..(Len(Lines) - 2) |-> Written(Lines[i + 1])]]

C1_Witness ==
  /\ pc = "returned"
  /\ Lines = <<L_Open, L_Text, L_Float, L_Int, L_CloseDot>>

(***************************************************************************)
(* C2: in a well-formed document every `key -> {` entry is bound to the    *)
(* mapping of exactly the entries written between that line and its        *)
(* matching closing line, at any depth, and the enclosing mapping holds no *)
(* key that was written inside a nested block.                             *)
(***************************************************************************)
C2_NestedAsWritten ==
  (pc = "returned" /\ WellFormed(Lines)) =>
    LET w == AsWritten(Lines, 2, <<>>).d
    IN /\ \A i \in 1..Len(w) :
            w[i].v.t = "map" => DictHas(result.v, w[i].k) /\ DictGet(result.v, w[i].k) = w[i].v
       /\ \A i \in 1..Len(result.v) : \E j \in 1..Len(w) : w[j].k = result.v[i].k

(***************************************************************************)
(* C3: when a structurally nested block has been closed, the enclosing     *)
(* Block Reader resumes at the line right after the closing line, so no    *)
(* line is skipped.                                                        *)
(***************************************************************************)
C3_ResumesAfterClose ==
  (pc = "block" /\ trace # <<>>) =>
    LET e == trace[Len(trace)]
    IN (e.rule = "close" /\ e.caller = "entry") =>
          Top(parsers).current_line = e.line + 1

(***************************************************************************)
(* C4: a document whose lines end while a block is still open never        *)
(* parses to a mapping: parse fails with a ParseError.                     *)
(***************************************************************************)
Unterminated(ls) == ls # <<>> /\ ls[1] = L_Open /\ ~AsWritten(ls, 2, <<>>).ok

C4_UnterminatedFails == (Done /\ Unterminated(Lines)) => pc = "raised"

(***************************************************************************)
(* C5: a document with anything but blank and comment lines after the      *)
(* closing line of its top-level block never parses to a mapping.          *)
(***************************************************************************)
ContentAfterTopLevel(ls) ==
  /\ ls # <<>>
  /\ ls[1] = L_Open
  /\ AsWritten(ls, 2, <<>>).ok
  /\ \E j \in AsWritten(ls, 2, <<>>).next..Len(ls) :
        ls[j] # <<>> /\ ls[j] # L_Comment

C5_OneTopLevelBlock == ContentAfterTopLevel(Lines) => pc # "returned"

(***************************************************************************)
(* Documents with constants and inline mapping literals.                   *)
(***************************************************************************)
\* def X = 1;
L_DefX1 == <<"d", "e", "f", " ", "X", " ", "=", " ", "1", ";">>
\* def X = [[s]];
L_DefXs == <<"d", "e", "f", " ", "X", " ", "=", " ", "[", "[", "s", "]", "]", ";">>
\* def Y = |X|;
L_DefY == <<"d", "e", "f", " ", "Y", " ", "=", " ", "|", "X", "|", ";">>
\* a -> |X|.
L_RefA == <<"a", " ", "-", ">", " ", "|", "X", "|", ".">>
\* b -> |X|.
L_RefB == <<"b", " ", "-", ">", " ", "|", "X", "|", ".">>
\* d -> { def X = 2; }.
L_InlineDef == <<"d", " ", "-", ">", " ", "{", " ", "d", "e", "f", " ", "X", " ", "=", " ", "2", ";", " ", "}", ".">>
\* e -> { b -> |X|. }.
L_InlineRef == <<"e", " ", "-", ">", " ", "{", " ", "b", " ", "-", ">", " ", "|", "X", "|", ".", " ", "}", ".">>
\* a => 1.
L_Bad == <<"a", " ", "=", ">", " ", "1", ".">>
\* g -> { b => 1. }.
L_InlineBad == <<"g", " ", "-", ">", " ", "{", " ", "b", " ", "=", ">", " ", "1", ".", " ", "}", ".">>

\* the lines inside the three literals: def X = 2; / b -> |X|. / b => 1.
I_DefX2 == <<"d", "e", "f", " ", "X", " ", "=", " ", "2", ";">>

I_Bad == <<"b", " ", "=", ">", " ", "1", ".">>

NameX == <<"X">>

MaxInlineLines == 4

InlineLines == {L_Open, L_CloseDot, L_DefX1, L_DefY, L_RefB, L_InlineDef, L_InlineRef,
                L_Bad, L_InlineBad}

ParseInline == pc = "idle" /\ \E t \in Texts(InlineLines, MaxInlineLines) : Parse(t)

NextInline ==
  \/ ParseInline
  \/ DriverStep
  \/ BlockStep
  \/ TrailingStep

SpecInline == Init /\ [][NextInline]_vars

MaxConstLines == 5

ConstLines == {L_Open, L_CloseDot, L_Close, L_Nested, L_DefX1, L_DefXs, L_RefA, L_RefB}

ParseConst == pc = "idle" /\ \E t \in Texts(ConstLines, MaxConstLines) : Parse(t)

NextConst ==
  \/ ParseConst
  \/ DriverStep
  \/ BlockStep
  \/ TrailingStep

SpecConst == Init /\ [][NextConst]_vars

\* the line the running parser is about to read, as it stands in its lines
RawLine == Top(parsers).lines[Top(parsers).current_line + 1]

Reading(where, lines) ==
  /\ pc = where
  /\ ~AtEnd(Top(parsers))
  /\ RawLine \in lines

\* what a declaration line of the alphabets declares: X = 1, X = "s", X = 2
Declared(line) ==
  CASE line = L_DefX1 -> [t |-> "int", v |-> 1]
    [] line = L_DefXs -> [t |-> "text", v |-> <<"s">>]
    [] line = I_DefX2 -> [t |-> "int", v |-> 2]

\* the key an entry line `key -> |X|.` binds
RefKey(line) == IF line = L_RefA THEN <<"a">> ELSE <<"b">>

\* the positions in trace at which the parser of depth 1 processed a def X line
DefsOfX == {i \in 1..Len(trace) : trace[i].depth = 1 /\ trace[i].rule = "def"}

LastDefOfX == CHOOSE i \in DefsOfX : \A j \in DefsOfX : j <= i

LastDeclared == Declared(Lines[trace[LastDefOfX].line + 1])

(***************************************************************************)
(* C6: reading an entry whose value is an inline mapping literal leaves    *)
(* the constant table of the enclosing state unchanged, whatever the       *)
(* literal declares, and a name bound in the enclosing table when the      *)
(* literal is read resolves inside the literal to its value at that        *)
(* moment.                                                                 *)
(***************************************************************************)
C6_OuterUnchanged ==
  \A i \in 1..(Len(parsers) - 1) :
    (parsers[i + 1].cont.kind = "entry" /\ i <= Len(parsers')) =>
       parsers'[i].constants = parsers[i].constants

C6_SnapshotResolves ==
  (/\ Len(parsers) >= 2
   /\ Reading("block", {L_RefB})
   /\ DictHas(parsers[Len(parsers) - 1].constants, NameX)) =>
     /\ pc' = "block"
     /\ Len(parsers') = Len(parsers)
     /\ TopFrame(Top(parsers')).config =
          <<[k |-> <<"b">>, v |-> DictGet(parsers[Len(parsers) - 1].constants, NameX)]>>

C6_InlineIsolation == [][C6_OuterUnchanged /\ C6_SnapshotResolves]_vars

\* a literal that declares X = 2 has been read as the value of an entry
\* while X = 1 outside, and a sibling entry after it has resolved |X|
C6_Witness ==
  /\ pc = "returned"
  /\ Lines = <<L_DefX1, L_Open, L_InlineDef, L_RefB>>
  /\ \E i \in 1..Len(trace) : trace[i].depth = 2 /\ trace[i].rule = "def"
  /\ DictGet(result.v, <<"b">>) = [t |-> "int", v |-> 1]

(***************************************************************************)
(* C7: a constant declared by a def line inside a structurally nested      *)
(* block stays bound, with the same value, in the one constant table after *)
(* the block has closed, and a constant declared before the block was      *)
(* entered resolves inside it.                                             *)
(***************************************************************************)
C7_DeclaredInsideStays ==
  (DefsOfX # {} /\ trace[LastDefOfX].caller = "entry" /\ pc # "raised") =>
     /\ DictHas(parsers[1].constants, NameX)
     /\ DictGet(parsers[1].constants, NameX) = LastDeclared

C7_DeclaredBeforeResolves ==
  (pc = "block" /\ trace # <<>> /\ DefsOfX # {}) =>
    LET e == trace[Len(trace)]
    IN (/\ e.rule = "entry"
        /\ e.caller = "entry"
        /\ Lines[e.line + 1] \in {L_RefA, L_RefB}
        /\ trace[LastDefOfX].frames < e.frames) =>
          /\ DictHas(TopFrame(parsers[1]).config, RefKey(Lines[e.line + 1]))
          /\ DictGet(TopFrame(parsers[1]).config, RefKey(Lines[e.line + 1])) = LastDeclared

C7_StructuralSharing == C7_DeclaredInsideStays /\ C7_DeclaredBeforeResolves

\* X was declared inside a nested block that has been closed since
C7_Witness ==
  /\ pc = "block"
  /\ DefsOfX # {}
  /\ trace[LastDefOfX].caller = "entry"
  /\ Len(parsers[1].frames) < trace[LastDefOfX].frames
  /\ DictGet(parsers[1].constants, NameX) = LastDeclared

(***************************************************************************)
(* C8: constants are last-write-wins: the table binds a name to the value  *)
(* of the most recent def processed for it (and binds no name that was     *)
(* never declared), a reference |NAME| resolves to that value, and a value *)
(* already resolved through an earlier reference is not changed by a later *)
(* redeclaration.                                                          *)
(***************************************************************************)
C8_TableIsLastDef ==
  pc # "raised" =>
    IF DefsOfX = {} THEN parsers[1].constants = EmptyDict
    ELSE parsers[1].constants = <<[k |-> NameX, v |-> LastDeclared]>>

C8_ReferenceResolves ==
  (Reading("block", {L_RefA, L_RefB}) /\ DefsOfX # {}) =>
     /\ pc' = "block"
     /\ DictGet(TopFrame(parsers'[1]).config, RefKey(RawLine)) = LastDeclared

C8_ResolvedValuesKept ==
  (Reading("block", {L_DefX1, L_DefXs}) \/ Reading("driver", {L_DefX1, L_DefXs})) =>
     /\ parsers'[1].frames = parsers[1].frames
     /\ config' = config

C8_LastWriteWins ==
  /\ []C8_TableIsLastDef
  /\ [][C8_ReferenceResolves /\ C8_ResolvedValuesKept]_vars

\* X = 1, |X| read, X redeclared as "s", |X| read again
C8_Witness ==
  /\ pc = "returned"
  /\ Lines = <<L_DefX1, L_Open, L_RefA, L_DefXs, L_RefB>>
  /\ result = [t |-> "map", v |-> <<[k |-> <<"a">>, v |-> [t |-> "int", v |-> 1]],
                                    [k |-> <<"b">>, v |-> [t |-> "text", v |-> <<"s">>]]>>]

(***************************************************************************)
(* C9: reading a reference |X| (in an entry value or in the right-hand     *)
(* side of a def) while X is not bound in the constant table of the parser *)
(* that reads it makes parse fail with "undefined constant" naming X; no   *)
(* mapping is returned and no table is changed.                            *)
(***************************************************************************)
C9_ReadsUnbound ==
  /\ \/ Reading("block", {L_RefB, L_DefY})
     \/ Reading("driver", {L_DefY})
  /\ ~DictHas(Top(parsers).constants, NameX)

C9_UndefinedConstant ==
  [][C9_ReadsUnbound =>
       /\ pc' = "raised"
       /\ error' = [msg |-> "undefined constant", arg |-> NameX,
                    line |-> Top(parsers).current_line + 1]
       /\ result' = NoValue
       /\ parsers' = parsers]_vars

\* an unbound X referenced on the right-hand side of a def, inside a block
C9_Witness ==
  /\ pc = "raised"
  /\ error.msg = "undefined constant"
  /\ error.arg = NameX
  /\ trace[Len(trace)].rule = "def"
  /\ trace[Len(trace)].where = "block"
  /\ result = NoValue

(***************************************************************************)
(* C10: the "invalid mapping entry" error carries the 1-based number,      *)
(* within the text given to parse, of the line that holds the offending    *)
(* entry, also when the entry is inside an inline mapping literal.         *)
(***************************************************************************)
C10_InvalidEntryLine ==
  (pc = "raised" /\ error.msg = "invalid mapping entry") =>
     /\ error.line \in 1..Len(Lines)
     /\ Lines[error.line] \in {L_Bad, L_InlineBad}

(***************************************************************************)
(* Lines that start with `def` or with `{` without being a declaration or  *)
(* an opening line, and the documents made of them.                        *)
(***************************************************************************)
\* def 1X = 1;
L_BadDef == <<"d", "e", "f", " ", "1", "X", " ", "=", " ", "1", ";">>
\* def X = 1
L_NoSemi == <<"d", "e", "f", " ", "X", " ", "=", " ", "1">>
\* default -> 1.
L_Default == <<"d", "e", "f", "a", "u", "l", "t", " ", "-", ">", " ", "1", ".">>
\* { a -> 1. }.
L_OpenJunk == <<"{", " ", "a", " ", "-", ">", " ", "1", ".", " ", "}", ".">>

MaxMiscLines == 5
MiscLines == {L_Open, L_CloseDot, L_Nested, L_Int, L_BadDef, L_NoSemi, L_Default, L_OpenJunk}

ParseMisc == pc = "idle" /\ \E t \in Texts(MiscLines, MaxMiscLines) : Parse(t)

NextMisc == ParseMisc \/ DriverStep \/ BlockStep \/ TrailingStep

SpecMisc == Init /\ [][NextMisc]_vars

MalformedDefs == {L_BadDef, L_NoSemi}

\* the lines of ls that are not malformed declarations
WithoutDefs(ls) == SelectSeq(ls, LAMBDA l : l \notin MalformedDefs)

(***************************************************************************)
(* C11: a document that is well formed but for a malformed `def` line      *)
(* (bad identifier, or no terminating `;`) before the first block or       *)
(* inside a block makes parse fail with "invalid constant declaration",    *)
(* and the constant table is left as it was.                               *)
(***************************************************************************)
C11_MalformedDefFails ==
  (/\ Done
   /\ WellFormed(WithoutDefs(Lines))
   /\ Lines[Len(Lines)] = L_CloseDot
   /\ \E i \in 1..Len(Lines) : Lines[i] \in MalformedDefs)
  => /\ pc = "raised"
     /\ error.msg = "invalid constant declaration"
     /\ parsers[1].constants = EmptyDict

(***************************************************************************)
(* C12: inside a block a line `key -> value.` whose key is an identifier   *)
(* is parsed as an entry binding key to value, also when the key begins    *)
(* with the letters def: `{`, `default -> 1.`, `}.` yields {default: 1}.   *)
(***************************************************************************)
C12_DefPrefixedKey ==
  (Done /\ Lines = <<L_Open, L_Default, L_CloseDot>>)
  => /\ pc = "returned"
     /\ result = MapV(<<[k |-> <<"d", "e", "f", "a", "u", "l", "t">>, v |-> IntV(1)]>>)

(***************************************************************************)
(* C20: the driver and the block reader take a line for the opening of a   *)
(* block only when the line is exactly `{`; a line that starts with `{`    *)
(* and goes on is never handled as an opening, its content dropped.        *)
(***************************************************************************)
C20_OnlyExactBraceOpens ==
  \A i \in 1..Len(trace) :
    (trace[i].rule = "open" /\ trace[i].depth = 1)
    => Strip(Lines[trace[i].line + 1]) = L_Open

(***************************************************************************)
(* Value tokens that are not delimited as text, mapping or reference: the  *)
(* documents `{`, `a -> <token>.`, `}.` for every token over NumChars.     *)
(***************************************************************************)
NumChars == {"-", "0", "1", "2", ".", "a"}

MaxTokenLen == 4

Tokens(n) == UNION {[1..k -> NumChars] : k \in 0..n}

\* a -> <token>.
EntryOf(tok) == <<"a", " ", "-", ">", " ">> \o tok \o <<".">>

NumDoc(tok) == <<L_Open, EntryOf(tok), L_CloseDot>>

ParseNum == pc = "idle" /\ \E tok \in Tokens(MaxTokenLen) : Parse(Join(NumDoc(tok)))

NextNum == ParseNum \/ DriverStep \/ BlockStep \/ TrailingStep

SpecNum == Init /\ [][NextNum]_vars

\* the token of the entry line `a -> <token>.`
TokenOf(line) == SubSeq(line, 6, Len(line) - 1)

Digits10 == <<"0", "1", "2", "3", "4", "5", "6", "7", "8", "9">>

IsDigitString(s) == Len(s) >= 1 /\ \A i \in 1..Len(s) : \E d \in 1..10 : s[i] = Digits10[d]

\* the number a string of digits denotes in base ten
RECURSIVE Reading10(_)
Reading10(s) ==
  IF s = <<>> THEN 0
  ELSE 10 * Reading10(SubSeq(s, 1, Len(s) - 1))
       + (CHOOSE d \in 0..9 : s[Len(s)] = Digits10[d + 1])

Unsigned(tok) == IF tok # <<>> /\ tok[1] = "-" THEN Tail(tok) ELSE tok

SignOf(tok) == IF tok # <<>> /\ tok[1] = "-" THEN -1 ELSE 1

\* optional `-`, digits
IntegerToken(tok) == IsDigitString(Unsigned(tok))

\* optional `-`, digits, `.`, digits
DotOf(tok) ==
  {d \in 1..Len(Unsigned(tok)) :
     /\ Unsigned(tok)[d] = "."
     /\ IsDigitString(SubSeq(Unsigned(tok), 1, d - 1))
     /\ IsDigitString(SubSeq(Unsigned(tok), d + 1, Len(Unsigned(tok))))}

FloatToken(tok) == DotOf(tok) # {}

IntegerOf(tok) == IntV(SignOf(tok) * Reading10(Unsigned(tok)))

FloatOf(tok) ==
  LET u == Unsigned(tok)
      d == CHOOSE d \in DotOf(tok) : TRUE
      places == Len(u) - d
  IN FloatV(SignOf(tok) * (Reading10(SubSeq(u, 1, d - 1)) * 10^places
                           + Reading10(SubSeq(u, d + 1, Len(u)))), places)

(***************************************************************************)
(* C13: a value token that is not delimited as text, mapping or reference  *)
(* is a numeric literal: optional `-`, digits, optional `.` and digits     *)
(* gives a float when the token holds a `.` and an integer otherwise; any  *)
(* other token makes parse fail with "invalid number format" naming the    *)
(* token, at the line of the entry.                                        *)
(***************************************************************************)
C13_NumericLiteral ==
  Done =>
    LET tok == TokenOf(Lines[2])
    IN IF IntegerToken(tok)
       THEN pc = "returned" /\ result = MapV(<<[k |-> <<"a">>, v |-> IntegerOf(tok)]>>)
       ELSE IF FloatToken(tok)
       THEN pc = "returned" /\ result = MapV(<<[k |-> <<"a">>, v |-> FloatOf(tok)]>>)
       ELSE pc = "raised" /\ error = ParseError("invalid number format", tok, 2)

\* `-1.2` was read as the float -1.2, `12a` raised
C13_Witness ==
  /\ pc = "returned"
  /\ Lines[2] = EntryOf(<<"-", "1", ".", "2">>)
  /\ result = MapV(<<[k |-> <<"a">>, v |-> [t |-> "float", v |-> <<-12, 1>>]]>>)

(***************************************************************************)
(* Documents of blank lines and comment lines, with and without a block.   *)
(***************************************************************************)
\* the empty line, and a line of one space
L_Empty == <<>>
L_Space == <<" ">>

MaxBlankLines == 4
BlankLines == {L_Empty, L_Space, L_Comment, L_Open, L_CloseDot}

ParseBlank == pc = "idle" /\ \E t \in Texts(BlankLines, MaxBlankLines) : Parse(t)

NextBlank == ParseBlank \/ DriverStep \/ BlockStep \/ TrailingStep

SpecBlank == Init /\ [][NextBlank]_vars

\* nothing but blank lines and comment lines; the empty text is one empty line
OnlyBlankAndComments(ls) == \A i \in 1..Len(ls) : ls[i] \in {L_Empty, L_Space, L_Comment}

(***************************************************************************)
(* C14: the empty text, and a text of nothing but blank lines and comment  *)
(* lines, is parsed to the empty mapping, and no error is raised.          *)
(***************************************************************************)
C14_EmptyDocument ==
  /\ (pc # "idle" /\ OnlyBlankAndComments(Lines)) => pc # "raised"
  /\ (Done /\ OnlyBlankAndComments(Lines))
     => pc = "returned" /\ result = MapV(EmptyDict) /\ error = NoError

\* a comment, an empty line and a line of one space were parsed to {}
C14_Witness ==
  /\ pc = "returned"
  /\ Lines = <<L_Comment, L_Empty, L_Space>>
  /\ result = MapV(EmptyDict)

(***************************************************************************)
(* Termination: every iteration of a loop of parse or parse_block is one   *)
(* step and leaves one event in trace, so parse terminates on a text when  *)
(* the number of events of its runs is bounded.                            *)
(***************************************************************************)
MaxTermLines == 4
TermLines == {L_Open, L_CloseDot, L_Nested, L_Int, L_DefX1, L_InlineRef, L_Empty, L_Bad}

ParseTerm == pc = "idle" /\ \E t \in Texts(TermLines, MaxTermLines) : Parse(t)

LoopStep == DriverStep \/ BlockStep \/ TrailingStep

NextTerm == ParseTerm \/ LoopStep

SpecTerm == Init /\ [][NextTerm]_vars

\* a text of n characters has at most n + 1 lines and at most n inline
\* mappings of one line; a loop runs at most twice per line and once more
MaxIterations(t) == 3 * (Len(t) + 1)

\* the cursor of every parser that exists before and after the step
CursorsNotDecreased ==
  \A i \in 1..Len(parsers) :
    i <= Len(parsers') => parsers'[i].current_line >= parsers[i].current_line

\* what one iteration of the running parser's loop does: the cursor moves
\* on, a parse_block call or parse returns, an error is raised, or the value
\* of the line is an inline mapping and its parser is started
IterationAdvances ==
  LET n == Len(parsers)
  IN \/ pc' = "raised"
     \/ pc' = "returned"
     \/ /\ Len(parsers') = n
        /\ \/ parsers'[n].current_line > parsers[n].current_line
           \/ Len(parsers'[n].frames) < Len(parsers[n].frames)
     \/ Len(parsers') = n + 1
     \/ /\ Len(parsers') = n - 1
        /\ parsers'[n - 1].current_line > parsers[n - 1].current_line

(***************************************************************************)
(* C15: for every finite sequence of lines parse terminates, returning or  *)
(* raising: within one parser the cursor never decreases, and every        *)
(* iteration of the first loop of parse and of the loop of parse_block     *)
(* moves the cursor on by at least one line, returns, or raises (an        *)
(* iteration that reads an inline mapping moves on when its parser is      *)
(* through), so that the number of iterations is bounded by the length of  *)
(* the text.                                                               *)
(***************************************************************************)
C15_Terminates ==
  /\ [](Len(trace) <= MaxIterations(text))
  /\ [][pc # "idle" => CursorsNotDecreased /\ IterationAdvances]_vars

\* an inline mapping was read and the document after it, to the end
C15_Witness ==
  /\ pc = "returned"
  /\ Lines = <<L_Open, L_DefX1, L_InlineRef, L_CloseDot>>
  /\ Len(trace) > Len(Lines)

(***************************************************************************)
(* Blocks opened by a `{` line inside a block.                             *)
(***************************************************************************)
MaxAnonLines == 5
AnonLines == {L_Open, L_CloseDot, L_Int, L_Text, L_Nested, L_DefX1}

ParseAnon == pc = "idle" /\ \E t \in Texts(AnonLines, MaxAnonLines) : Parse(t)

NextAnon == ParseAnon \/ DriverStep \/ BlockStep \/ TrailingStep

SpecAnon == Init /\ [][NextAnon]_vars

\* the mapping the scalar entry lines of ls write, declarations left out
RECURSIVE EntriesOf(_)
EntriesOf(ls) ==
  IF ls = <<>> THEN <<>>
  ELSE LET d == EntriesOf(SubSeq(ls, 1, Len(ls) - 1))
       IN IF ls[Len(ls)] \in ScalarLines THEN Put(d, Written(ls[Len(ls)])) ELSE d

Plain(ls) == \A i \in 1..Len(ls) : ls[i] \in {L_Int, L_Text, L_DefX1}

\* `{`, lines, `{`, lines, `}.` and whatever follows: i is the inner `{`
\* line and j the line that closes it
AnonShape(ls, i, j) ==
  /\ 1 < i /\ i < j /\ j <= Len(ls)
  /\ ls[1] = L_Open /\ ls[i] = L_Open /\ ls[j] = L_CloseDot
  /\ Plain(SubSeq(ls, 2, i - 1))
  /\ Plain(SubSeq(ls, i + 1, j - 1))

\* the innermost parse_block call is the block of a `{` line and ends now
AnonReturns ==
  /\ pc = "block"
  /\ Len(parsers) = 1
  /\ TopFrame(parsers[1]).caller = "anon"
  /\ AtEnd(parsers[1]) \/ CurLine(parsers[1]) \in {L_Close, L_CloseDot}

\* the innermost call that was not made for a `{` line
Enclosing(fs) == CHOOSE j \in 1..Len(fs) :
  fs[j].caller # "anon" /\ \A k \in (j + 1)..Len(fs) : fs[k].caller = "anon"

C17_CursorBound ==
  \A i \in 1..Len(parsers) :
    0 <= parsers[i].current_line /\ parsers[i].current_line <= Len(parsers[i].lines)

(***************************************************************************)
(* Several calls of parse on one ConfigParser. parse sets self.lines and   *)
(* self.current_line anew and leaves self.constants as it is; the calls    *)
(* and parsers of inline mappings of the call before are gone with its     *)
(* return or its exception. trace keeps one record for every call that is  *)
(* over, in front of the events of the running call.                       *)
(***************************************************************************)
CallRecord ==
  [depth |-> 0, frames |-> 0, caller |-> "parse", where |-> "call", line |-> 0,
   rule |-> "call", text |-> text, pc |-> pc, result |-> result, error |-> error]

Calls(tr) == SelectSeq(tr, LAMBDA e : e.rule = "call")

MaxCalls == 3

Reparse(t) ==
  /\ Done
  /\ Len(Calls(trace)) + 1 < MaxCalls
  /\ text' = t
  /\ parsers' = <<[parsers[1] EXCEPT !.lines = Split(t), !.current_line = 0, !.frames = <<>>]>>
  /\ pc' = "driver"
  /\ config' = EmptyDict
  /\ result' = NoValue
  /\ error' = NoError
  /\ trace' = Append(Calls(trace), CallRecord)

MaxReuseLines == 2
ReuseLines == {L_Open, L_CloseDot, L_DefX1, L_RefB}

ParseReuse == pc = "idle" /\ \E t \in Texts(ReuseLines, MaxReuseLines) : Parse(t)

ParseAgain == Done /\ \E t \in Texts(ReuseLines, MaxReuseLines) : Reparse(t)

NextReuse == ParseReuse \/ ParseAgain \/ DriverStep \/ BlockStep \/ TrailingStep

SpecReuse == Init /\ [][NextReuse]_vars

(***************************************************************************)
(* C18: the outcome of parse(text) is a function of text alone: a call on  *)
(* a ConfigParser that has parsed other texts before ends with the mapping *)
(* or the error that the call of the same text on a new ConfigParser, the  *)
(* first call of the run, ended with.                                      *)
(***************************************************************************)
C18_OutcomeOfTextAlone ==
  (Done /\ Calls(trace) # <<>> /\ Calls(trace)[1].text = text)
  => /\ Calls(trace)[1].pc = pc
     /\ Calls(trace)[1].result = result
     /\ Calls(trace)[1].error = error

(***************************************************************************)
(* Blocks in which a key is entered more than once.                        *)
(***************************************************************************)
\* a -> 2.
L_Int2 == <<"a", " ", "-", ">", " ", "2", ".">>

MaxDupLines == 6
DupLines == {L_Open, L_CloseDot, L_Nested, L_Int, L_Int2}

ParseDup == pc = "idle" /\ \E t \in Texts(DupLines, MaxDupLines) : Parse(t)

NextDup == ParseDup \/ DriverStep \/ BlockStep \/ TrailingStep

SpecDup == Init /\ [][NextDup]_vars

\* the mapping a sequence of entries makes, one after the other
RECURSIVE Entered(_)
Entered(es) ==
  IF es = <<>> THEN <<>> ELSE Put(Entered(SubSeq(es, 1, Len(es) - 1)), es[Len(es)])

\* the entries of the block whose first line is ls[i], in the order of the
\* lines and with their repetitions; ok is FALSE when the block is not closed
RECURSIVE EntriesWritten(_, _, _)
EntriesWritten(ls, i, es) ==
  IF i > Len(ls) THEN [ok |-> FALSE, es |-> es, next |-> i]
  ELSE IF ls[i] \in {L_Close, L_CloseDot} THEN [ok |-> TRUE, es |-> es, next |-> i + 1]
  ELSE IF ls[i] = L_Nested
       THEN LET r == EntriesWritten(ls, i + 1, <<>>)
            IN IF r.ok
               THEN EntriesWritten(ls, r.next,
                                   Append(es, [k |-> <<"c">>, v |-> MapV(Entered(r.es))]))
               ELSE [ok |-> FALSE, es |-> es, next |-> r.next]
  ELSE IF ls[i] = L_Int THEN EntriesWritten(ls, i + 1, Append(es, [k |-> <<"a">>, v |-> IntV(1)]))
  ELSE IF ls[i] = L_Int2 THEN EntriesWritten(ls, i + 1, Append(es, [k |-> <<"a">>, v |-> IntV(2)]))
  ELSE [ok |-> FALSE, es |-> es, next |-> i]

(***************************************************************************)
(* C19: keys are unique within a mapping and the last write wins: when a   *)
(* key is entered more than once in the top-level block of a document, by  *)
(* `key -> value.` or by `key -> {` entries, the mapping parse returns has *)
(* exactly one binding for it, with the value of the last of these         *)
(* entries, and the keys stand in the order in which they were first       *)
(* entered.                                                                *)
(***************************************************************************)
C19_LastWriteWins ==
  LET r == EntriesWritten(Lines, 2, <<>>)
  IN (/\ Done
      /\ Len(Lines) >= 2 /\ Lines[1] = L_Open
      /\ r.ok /\ r.next = Len(Lines) + 1
      /\ \E i, j \in 1..Len(r.es) : i < j /\ r.es[i].k = r.es[j].k)
     => /\ pc = "returned"
        /\ DictKeys(result.v) = DictKeys(Entered(r.es))
        /\ \A j \in 1..Len(r.es) :
             (\A l \in (j + 1)..Len(r.es) : r.es[l].k # r.es[j].k)
             => /\ Cardinality({n \in 1..Len(result.v) : result.v[n].k = r.es[j].k}) = 1
                /\ DictGet(result.v, r.es[j].k) = r.es[j].v

====
